---------------------------- MODULE Spec2Model ----------------------------
(***************************************************************************)
(* A model of the deepext training harness:                                *)
(*   - the EfficientNet model adapter (classifier/efficientnet),           *)
(*   - XTrainer (trainer/xtrainer.py),                                     *)
(*   - the epoch callbacks and learning-rate functors (utils/callbacks.py).*)
(*                                                                         *)
(* Tensors are abstracted to small integers: a state_dict is a number that *)
(* every optimizer step changes, the optimizer state is the number of      *)
(* steps taken together with the last gradient seen, a batch is its        *)
(* position in the data loader, a loss is drawn from a small set.          *)
(***************************************************************************)
EXTENDS Integers, Sequences, FiniteSets, TLC

\* ------------------------------------------------------------------ bounds
MaxEpochs == 2
MaxBatches == 2
MaxMetrics == 2
\* optimizer steps an adapter takes when it is called directly
MaxSteps == 2
\* periods a callback is constructed with, epochs it is called with
MaxPerEpoch == 5
MaxCallEpochs == 5
\* warm-up lengths a WarmUpLRScheduler is constructed with
MaxWarmupEpochs == 10

\* sizes of the assemble model and of the list of learning tables
AssembleSizes == {1, 2}
\* sizes of the evaluation loader
EvalLoaderSizes == {0, 1}
\* values loss.item() may return
Losses == {1, 2}
\* architectures and class counts an adapter is constructed with
NetworkNames == {"efficientnet-b0", "efficientnet-b1"}
ClassCounts == {2, 3}
\* batches and inputs handed to an adapter that is called directly
Inputs == {1, 2}

VARIABLES
    model_list,       \* XTrainer._assemble_model.model_list: the adapters
    files,            \* the file system: path -> content
    pc,               \* the position of the running call
    error,            \* the exception that ended the run and the function that raised it
    learning_tables,  \* fit's argument
    metric_func_ls,   \* fit's argument: the number of metric functions
    test_dataloader,  \* fit's argument: the number of evaluation batches
    i,                \* fit's loop index (1-based)
    epoch,            \* train_one_model's loop variable
    batch,            \* position in the loader being iterated
    loss_list,        \* train_epoch's loss_list
    metric_ls,        \* calc_metric's metric_ls
    mean_loss,        \* train_one_model's mean_loss, a fraction <<num, den>>
    mf,               \* index of the metric function being computed
    cb,               \* index of the callback being invoked
    log,              \* history: the calls made to the adapters and callbacks
    ret,              \* the last direct call of an adapter, callback or functor
    scheduler         \* a WarmUpLRScheduler object

fit_args == <<learning_tables, metric_func_ls, test_dataloader>>
fit_locals == <<i, epoch, batch, loss_list, metric_ls, mean_loss, mf, cb>>
direct == <<ret, scheduler>>

vars == <<model_list, files, pc, error, fit_args, fit_locals, log, direct>>

\* ------------------------------------------------------------- helpers
RECURSIVE SumSeq(_)
SumSeq(s) == IF s = <<>> THEN 0 ELSE Head(s) + SumSeq(Tail(s))

RECURSIVE GCD(_, _)
GCD(a, b) == IF b = 0 THEN a ELSE GCD(b, a % b)

\* a fraction in lowest terms
Frac(n, d) == LET g == GCD(n, d) IN <<n \div g, d \div g>>

\* mutant: the sum is divided by one too many
meanOffByOne(s) == Frac(SumSeq(s), Len(s) + 1)

\* statistics.mean: the exact sum over the count; undefined (StatisticsError)
\* on an empty list, which the callers test before using it
mean(s) == Frac(SumSeq(s), Len(s))

NoMean == <<0, 0>>

\* ------------------------------------------------------ the file system
Path(name, ep, label, pred) ==
    [name |-> name, epoch |-> ep, label |-> label, pred |-> pred]

Image == [kind |-> "png"]

WriteFile(fs, p, c) == [q \in (DOMAIN fs) \cup {p} |-> IF q = p THEN c ELSE fs[q]]

NoFiles == [q \in {} |-> Image]

\* --------------------------------------------------- EfficientNet adapter
\* EfficientNet.__init__: fresh parameters, a fresh SGD optimizer, and the
\* module in training mode (torch.nn.Module.training defaults to True)
NewEfficientNet(num_classes, network, w0) ==
    [num_classes |-> num_classes,
     network     |-> network,
     state_dict  |-> w0,
     optimizer   |-> [step |-> 0, momentum_buffer |-> 0],
     training    |-> TRUE]

\* one SGD step on batch x
SGDStep(m, x) ==
    [m EXCEPT !.state_dict = 2 * @ + x,
              !.optimizer = [step |-> @.step + 1, momentum_buffer |-> x]]

\* EfficientNet.train_batch: self._model.train(), forward, backward, step
train_batch(m, x) == SGDStep([m EXCEPT !.training = TRUE], x)

\* the network's forward pass: a function of the parameters, the input and
\* the mode (dropout and batch normalisation behave differently in training)
Forward(m, x) ==
    [network |-> m.network, num_classes |-> m.num_classes,
     state_dict |-> m.state_dict, inputs |-> x, training |-> m.training]

\* mutant: the call to self._model.eval() is missing
predictWithoutEval(m, x) == [model |-> m, output |-> Forward(m, x)]

\* EfficientNet.predict: self._model.eval(), then a forward pass under no_grad;
\* the adapter afterwards, and the value returned
predict(m, x) ==
    LET m2 == [m EXCEPT !.training = FALSE]
    IN  [model |-> m2, output |-> Forward(m2, x)]

\* EfficientNet.save_weight: the dictionary handed to torch.save
dict_to_save(m) ==
    [kind       |-> "checkpoint",
     num_class  |-> m.num_classes,
     network    |-> m.network,
     state_dict |-> m.state_dict,
     optimizer  |-> m.optimizer]

save_weight(m, fs, save_path) == WriteFile(fs, save_path, dict_to_save(m))

\* mutant: the optimizer state is not restored
load_weight_without_optimizer(m, params) ==
    [m EXCEPT !.num_classes = params.num_class,
              !.state_dict  = params.state_dict,
              !.network     = params.network]

\* EfficientNet.load_weight on a readable checkpoint: the adapter afterwards
load_weight(m, params) ==
    [m EXCEPT !.num_classes = params.num_class,
              !.state_dict  = params.state_dict,
              !.optimizer   = params.optimizer,
              !.network     = params.network]


\* ---------------------------------------------------------------- callbacks
\* indices np.random.randint(0, len(dataset)) may return
DatasetIndices == {0, 1}

\* dataset[idx]: the sample's label
Label(idx) == idx

\* perception_pred.argmax(-1).item(): the class the held model predicts
PredLabel(m, idx) == (m.state_dict + idx) % m.num_classes

\* a callback object: its class, its period, the model it holds (an index
\* into model_list)
Callback(kind, per_epoch, model) ==
    [kind |-> kind, per_epoch |-> per_epoch, model |-> model]

\* mutant: the period is tested on the zero-based epoch
FiresZeroBased(c, ep) == ep % c.per_epoch = 0

\* the guard every periodic callback starts with: the negation of
\* "if (epoch + 1) % self._per_epoch != 0: return"
Fires(c, ep) == (ep + 1) % c.per_epoch = 0

\* what a call leaves behind: the adapters, the file system, the paths written
Effect(models, fs, writes) == [models |-> models, files |-> fs, writes |-> writes]

\* SegmentationModel.draw_predicted_result / DetectionModel.draw_predicted_result:
\* the model's drawing routine returns an image; it is described as having no
\* effect on the model (file writes only, no training-state mutation)
draw_predicted_result(m) == m

\* GenerateSegmentationImageCallback.__call__
SegmentationCall(c, ep, idx, models, fs) ==
    IF ~Fires(c, ep) THEN Effect(models, fs, <<>>)
    ELSE LET p == Path("result_image", ep + 1, 0, 0)
         IN  Effect([models EXCEPT ![c.model] = draw_predicted_result(@)],
                    WriteFile(fs, p, Image), <<p>>)

\* mutant: self._model.eval() is called before the period is tested
AttentionMapCallEvalFirst(c, ep, idx, models, fs) ==
    LET m  == [models[c.model] EXCEPT !.training = FALSE]
        p1 == Path("epoch_t_p", ep + 1, Label(idx), PredLabel(m, idx))
        p2 == Path("epoch_attention", ep + 1, 0, 0)
    IN  IF (ep + 1) % c.per_epoch # 0
        THEN Effect([models EXCEPT ![c.model] = m], fs, <<>>)
        ELSE Effect([models EXCEPT ![c.model] = m],
                    WriteFile(WriteFile(fs, p1, Image), p2, Image), <<p1, p2>>)

\* GenerateAttentionMapCallback.__call__
AttentionMapCall(c, ep, idx, models, fs) ==
    IF ~Fires(c, ep) THEN Effect(models, fs, <<>>)
    ELSE LET m  == [models[c.model] EXCEPT !.training = FALSE]
             p1 == Path("epoch_t_p", ep + 1, Label(idx), PredLabel(m, idx))
             p2 == Path("epoch_attention", ep + 1, 0, 0)
         IN  Effect([models EXCEPT ![c.model] = m],
                    WriteFile(WriteFile(fs, p1, Image), p2, Image), <<p1, p2>>)

\* VisualizeRandomObjectDetectionResult.__call__
DetectionCall(c, ep, idx, models, fs) ==
    IF ~Fires(c, ep) THEN Effect(models, fs, <<>>)
    ELSE LET p == Path("result_", ep + 1, 0, 0)
         IN  Effect([models EXCEPT ![c.model] = draw_predicted_result(@)],
                    WriteFile(fs, p, Image), <<p>>)

\* ModelCheckout.__call__
ModelCheckoutCall(c, ep, idx, models, fs) ==
    IF ~Fires(c, ep) THEN Effect(models, fs, <<>>)
    ELSE LET p == Path("EfficientNet_ep", ep + 1, 0, 0)
         IN  Effect(models, save_weight(models[c.model], fs, p), <<p>>)

\* callback(epoch), dispatched on the callback's class
Call(c, ep, idx, models, fs) ==
    CASE c.kind = "segmentation" -> SegmentationCall(c, ep, idx, models, fs)
      [] c.kind = "attention"    -> AttentionMapCall(c, ep, idx, models, fs)
      [] c.kind = "detection"    -> DetectionCall(c, ep, idx, models, fs)
      [] c.kind = "checkout"     -> ModelCheckoutCall(c, ep, idx, models, fs)

CallbackKinds == {"segmentation", "attention", "detection", "checkout"}

\* ----------------------------------------------------------------- XTrainer
\* the callback lists a learning table for model k is built with (None is
\* the empty list: "learning_table.callbacks or []")
CallbackLists(k) ==
    { <<>>,
      << Callback("attention", 2, k), Callback("checkout", 1, k) >> }

LearningTable(data_loader, epochs, callbacks) ==
    [data_loader |-> data_loader, epochs |-> epochs, callbacks |-> callbacks]

\* the lists of n learning tables fit may be given
LearningTableLists(n) ==
    { t \in [1..n -> UNION { { LearningTable(d, e, c) : d \in 0..MaxBatches,
                                                       e \in 0..MaxEpochs,
                                                       c \in CallbackLists(k) }
                             : k \in 1..n }] :
        \A k \in 1..n : t[k].callbacks \in CallbackLists(k) }

Event(ev, model, table, ep, k) ==
    [ev |-> ev, model |-> model, table |-> table, epoch |-> ep, k |-> k]

\* mutant: every model is trained with the first learning table
TableIndexFirst(idx) == 1

\* fit, lines 22-23: "learning_table = learning_tables[i]; model = model_list[i]"
TableIndex(idx) == idx
ModelIndex(idx) == idx

\* mutant: the assertion only rejects too many learning tables
LengthsMatchAtMost(tables, models) == Len(tables) <= Len(models)

\* fit, line 19: the asserted condition
LengthsMatch(tables, models) == Len(tables) = Len(models)

\* metric_func(result, teacher.numpy()): a pure function of the prediction
metric_func(f, output) == (output.state_dict + f) % 2

\* AssembleModel.predict: every member predicts
AssemblePredict(models, x) == [k \in DOMAIN models |-> predict(models[k], x).model]

NoError == [exc |-> "none", in |-> "none"]
NoCall == [op |-> "none"]
NoScheduler == [warmup_lr |-> 0, lr |-> 0, warmup_epochs |-> 0]

FitIdle ==
    /\ learning_tables = <<>>
    /\ metric_func_ls = 0
    /\ test_dataloader = 0
    /\ i = 0
    /\ epoch = 0
    /\ batch = 0
    /\ loss_list = <<>>
    /\ metric_ls = <<>>
    /\ mean_loss = NoMean
    /\ mf = 0
    /\ cb = 0
    /\ log = <<>>

\* XTrainer.__init__ over an assemble of freshly constructed adapters
Init ==
    /\ \E n \in AssembleSizes :
          model_list = [k \in 1..n |-> NewEfficientNet(2, "efficientnet-b0", 0)]
    /\ files = NoFiles
    /\ pc = "init"
    /\ error = NoError
    /\ FitIdle
    /\ ret = NoCall
    /\ scheduler = NoScheduler

Raise(exc, in) ==
    /\ pc' = "raised"
    /\ error' = [exc |-> exc, in |-> in]

\* the arguments fit is called with
FitArguments ==
    /\ \E n \in AssembleSizes : learning_tables' \in LearningTableLists(n)
    /\ metric_func_ls' \in 0..MaxMetrics
    /\ test_dataloader' \in EvalLoaderSizes
    /\ (metric_func_ls' = 0 => test_dataloader' = 0)

\* fit, line 19: the assertion on the two lengths fails
FitAssertFails ==
    /\ pc = "init"
    /\ FitArguments
    /\ ~LengthsMatch(learning_tables', model_list)
    /\ Raise("AssertionError", "fit")
    /\ UNCHANGED <<model_list, files, fit_locals, log, direct>>

\* fit, lines 19-21: the assertion holds, the loop over the pairs starts
FitStart ==
    /\ pc = "init"
    /\ FitArguments
    /\ LengthsMatch(learning_tables', model_list)
    /\ i' = 1
    /\ pc' = "fit_loop"
    /\ UNCHANGED <<model_list, files, error, log, direct>>
    /\ UNCHANGED <<epoch, batch, loss_list, metric_ls, mean_loss, mf, cb>>

\* fit, lines 21-25 and train_one_model, line 34: the next pair is taken
TrainOneModelStart ==
    /\ pc = "fit_loop"
    /\ i <= Len(learning_tables)
    /\ epoch' = 0
    /\ pc' = "epoch_loop"
    /\ UNCHANGED <<model_list, files, error, fit_args, log, direct>>
    /\ UNCHANGED <<i, batch, loss_list, metric_ls, mean_loss, mf, cb>>

\* train_one_model, lines 34-35 and train_epoch, line 46: an epoch starts
TrainEpochStart ==
    /\ pc = "epoch_loop"
    /\ epoch < learning_tables[TableIndex(i)].epochs
    /\ loss_list' = <<>>
    /\ batch' = 1
    /\ pc' = "train_epoch"
    /\ UNCHANGED <<model_list, files, error, fit_args, log, direct>>
    /\ UNCHANGED <<i, epoch, metric_ls, mean_loss, mf, cb>>

\* train_epoch, lines 47-51: one batch
TrainBatch ==
    /\ pc = "train_epoch"
    /\ batch <= learning_tables[TableIndex(i)].data_loader
    /\ model_list' = [model_list EXCEPT ![ModelIndex(i)] = train_batch(@, batch)]
    /\ \E loss \in Losses : loss_list' = Append(loss_list, loss)
    /\ log' = Append(log, Event("train_batch", ModelIndex(i), TableIndex(i), epoch, batch))
    /\ batch' = batch + 1
    /\ UNCHANGED <<files, pc, error, fit_args, direct>>
    /\ UNCHANGED <<i, epoch, metric_ls, mean_loss, mf, cb>>

\* mutant: the mean of no losses is a not-a-number value and the epoch goes on
TrainEpochReturnsNaN ==
    /\ pc = "train_epoch"
    /\ batch > learning_tables[TableIndex(i)].data_loader
    /\ loss_list = <<>>
    /\ mean_loss' = NoMean
    /\ log' = Append(log, Event("train_epoch", ModelIndex(i), TableIndex(i), epoch, 0))
    /\ mf' = 1
    /\ batch' = 1
    /\ metric_ls' = <<>>
    /\ pc' = "calc_metric"
    /\ UNCHANGED <<model_list, files, error, fit_args, direct>>
    /\ UNCHANGED <<i, epoch, loss_list, cb>>

\* train_epoch, line 52, over an empty loss_list: statistics.mean raises
TrainEpochRaises ==
    /\ pc = "train_epoch"
    /\ batch > learning_tables[TableIndex(i)].data_loader
    /\ loss_list = <<>>
    /\ Raise("StatisticsError", "train_epoch")
    /\ UNCHANGED <<model_list, files, fit_args, fit_locals, log, direct>>

\* train_epoch, line 52, and train_one_model, lines 35-37
TrainEpochReturn ==
    /\ pc = "train_epoch"
    /\ batch > learning_tables[TableIndex(i)].data_loader
    /\ loss_list # <<>>
    /\ mean_loss' = mean(loss_list)
    /\ log' = Append(log, Event("train_epoch", ModelIndex(i), TableIndex(i), epoch, Len(loss_list)))
    /\ mf' = 1
    /\ batch' = 1
    /\ metric_ls' = <<>>
    /\ pc' = "calc_metric"
    /\ UNCHANGED <<model_list, files, error, fit_args, direct>>
    /\ UNCHANGED <<i, epoch, loss_list, cb>>

\* calc_metric, lines 57-59, on the model being trained: one evaluation batch
CalcMetricPredict ==
    /\ pc = "calc_metric"
    /\ mf <= metric_func_ls
    /\ batch <= test_dataloader
    /\ LET r == predict(model_list[ModelIndex(i)], batch)
       IN  /\ model_list' = [model_list EXCEPT ![ModelIndex(i)] = r.model]
           /\ metric_ls' = Append(metric_ls, metric_func(mf, r.output))
    /\ log' = Append(log, Event("predict", ModelIndex(i), TableIndex(i), epoch, mf))
    /\ batch' = batch + 1
    /\ UNCHANGED <<files, pc, error, fit_args, direct>>
    /\ UNCHANGED <<i, epoch, loss_list, mean_loss, mf, cb>>

\* calc_metric, line 60, over an empty metric_ls: statistics.mean raises
CalcMetricRaises ==
    /\ pc \in {"calc_metric", "total_metric"}
    /\ mf <= metric_func_ls
    /\ batch > test_dataloader
    /\ metric_ls = <<>>
    /\ Raise("StatisticsError", "calc_metric")
    /\ UNCHANGED <<model_list, files, fit_args, fit_locals, log, direct>>

\* calc_metric, line 60, and train_one_model, lines 37-39: the next metric
CalcMetricReturn ==
    /\ pc = "calc_metric"
    /\ mf <= metric_func_ls
    /\ batch > test_dataloader
    /\ metric_ls # <<>>
    /\ log' = Append(log, Event("metric", ModelIndex(i), TableIndex(i), epoch, mf))
    /\ mf' = mf + 1
    /\ batch' = 1
    /\ metric_ls' = <<>>
    /\ UNCHANGED <<model_list, files, pc, error, fit_args, direct>>
    /\ UNCHANGED <<i, epoch, loss_list, mean_loss, cb>>

\* train_one_model, lines 40-42: the epoch is reported, the callbacks start
CallbacksStart ==
    /\ pc = "calc_metric"
    /\ mf > metric_func_ls
    /\ cb' = 1
    /\ pc' = "callbacks"
    /\ UNCHANGED <<model_list, files, error, fit_args, log, direct>>
    /\ UNCHANGED <<i, epoch, batch, loss_list, metric_ls, mean_loss, mf>>

\* mutant: the callbacks are handed the one-based epoch number
CallbackArgumentOneBased(ep) == ep + 1

\* the argument train_one_model, line 43, calls a callback with
CallbackArgument(ep) == ep

\* train_one_model, lines 42-43: callback(epoch)
CallbackStep ==
    /\ pc = "callbacks"
    /\ cb <= Len(learning_tables[TableIndex(i)].callbacks)
    /\ LET c == learning_tables[TableIndex(i)].callbacks[cb]
       IN  \E idx \in DatasetIndices :
             LET r == Call(c, CallbackArgument(epoch), idx, model_list, files)
             IN  /\ model_list' = r.models
                 /\ files' = r.files
    /\ log' = Append(log, Event("callback", ModelIndex(i), TableIndex(i),
                                CallbackArgument(epoch), cb))
    /\ cb' = cb + 1
    /\ UNCHANGED <<pc, error, fit_args, direct>>
    /\ UNCHANGED <<i, epoch, batch, loss_list, metric_ls, mean_loss, mf>>

\* train_one_model, lines 42 and 34: the callbacks are done, the next epoch
EpochEnd ==
    /\ pc = "callbacks"
    /\ cb > Len(learning_tables[TableIndex(i)].callbacks)
    /\ epoch' = epoch + 1
    /\ pc' = "epoch_loop"
    /\ UNCHANGED <<model_list, files, error, fit_args, log, direct>>
    /\ UNCHANGED <<i, batch, loss_list, metric_ls, mean_loss, mf, cb>>

\* train_one_model returns (line 34 exhausted); fit, line 21: the next pair
TrainOneModelReturn ==
    /\ pc = "epoch_loop"
    /\ epoch >= learning_tables[TableIndex(i)].epochs
    /\ i' = i + 1
    /\ pc' = "fit_loop"
    /\ UNCHANGED <<model_list, files, error, fit_args, log, direct>>
    /\ UNCHANGED <<epoch, batch, loss_list, metric_ls, mean_loss, mf, cb>>

\* fit, lines 26-27: every pair is trained, the aggregate metrics start
TotalMetricStart ==
    /\ pc = "fit_loop"
    /\ i > Len(learning_tables)
    /\ mf' = 1
    /\ batch' = 1
    /\ metric_ls' = <<>>
    /\ pc' = "total_metric"
    /\ UNCHANGED <<model_list, files, error, fit_args, log, direct>>
    /\ UNCHANGED <<i, epoch, loss_list, mean_loss, cb>>

\* calc_metric, lines 57-59, on the assemble model: one evaluation batch
TotalMetricPredict ==
    /\ pc = "total_metric"
    /\ mf <= metric_func_ls
    /\ batch <= test_dataloader
    /\ model_list' = AssemblePredict(model_list, batch)
    /\ metric_ls' = Append(metric_ls, metric_func(mf, predict(model_list[1], batch).output))
    /\ log' = Append(log, Event("predict", 0, 0, 0, mf))
    /\ batch' = batch + 1
    /\ UNCHANGED <<files, pc, error, fit_args, direct>>
    /\ UNCHANGED <<i, epoch, loss_list, mean_loss, mf, cb>>

\* calc_metric, line 60, and fit, lines 27-29: the next aggregate metric
TotalMetricReturn ==
    /\ pc = "total_metric"
    /\ mf <= metric_func_ls
    /\ batch > test_dataloader
    /\ metric_ls # <<>>
    /\ log' = Append(log, Event("total_metric", 0, 0, 0, mf))
    /\ mf' = mf + 1
    /\ batch' = 1
    /\ metric_ls' = <<>>
    /\ UNCHANGED <<model_list, files, pc, error, fit_args, direct>>
    /\ UNCHANGED <<i, epoch, loss_list, mean_loss, cb>>

\* fit, line 30: the total is reported and fit returns
FitReturn ==
    /\ pc = "total_metric"
    /\ mf > metric_func_ls
    /\ pc' = "done"
    /\ UNCHANGED <<model_list, files, error, fit_args, fit_locals, log, direct>>

Next ==
    \/ FitAssertFails
    \/ FitStart
    \/ TrainOneModelStart
    \/ TrainEpochStart
    \/ TrainBatch
    \/ TrainEpochRaises
    \/ TrainEpochReturn
    \/ CalcMetricPredict
    \/ CalcMetricRaises
    \/ CalcMetricReturn
    \/ CallbacksStart
    \/ CallbackStep
    \/ EpochEnd
    \/ TrainOneModelReturn
    \/ TotalMetricStart
    \/ TotalMetricPredict
    \/ TotalMetricReturn
    \/ FitReturn

Spec == Init /\ [][Next]_vars


\* ------------------------------------------------------- claims on XTrainer
Last == log[Len(log)]

EventsOf(ev, m, e) ==
    LET Test(x) == x.ev = ev /\ x.model = m /\ x.epoch = e
    IN  SelectSeq(log, Test)

TotalMetrics ==
    LET Test(x) == x.ev = "total_metric"
    IN  SelectSeq(log, Test)

\* the callback calls of one epoch of model m: every registered callback once,
\* in registration order, with the epoch as argument
ExpectedCallbacks(m, e, n) == [k \in 1..n |-> Event("callback", m, m, e, k)]

\* epoch e of pair j ran to its end: all batches, the epoch's return, all callbacks
EpochFinished(j, e) ==
    /\ Len(EventsOf("train_batch", j, e)) = learning_tables[j].data_loader
    /\ Len(EventsOf("train_epoch", j, e)) = 1
    /\ EventsOf("callback", j, e) = ExpectedCallbacks(j, e, Len(learning_tables[j].callbacks))

PairFinished(j) == \A e \in 0..(learning_tables[j].epochs - 1) : EpochFinished(j, e)

\* C1: fit with a number of learning tables different from the number of
\* models ends at once in an assertion failure: no train_batch, no predict or
\* metric and no callback has run, no adapter and no file has changed, and
\* nothing runs afterwards.
C1_MismatchFailsBeforeTraining ==
    (pc # "init" /\ Len(learning_tables) # Len(model_list)) =>
        /\ pc = "raised"
        /\ error = [exc |-> "AssertionError", in |-> "fit"]
        /\ log = <<>>
        /\ \A k \in DOMAIN model_list :
              model_list[k] = NewEfficientNet(2, "efficientnet-b0", 0)
        /\ files = NoFiles
        /\ ~ENABLED Next

C1_Witness ==
    /\ pc = "raised"
    /\ error.exc = "AssertionError"
    /\ Len(model_list) = 2
    /\ Len(learning_tables) = 1

\* C2: in train_one_model every registered callback is called exactly once per
\* epoch, with that epoch as argument and in registration order, after the
\* epoch's train_epoch and metrics are complete; no batch of the next epoch is
\* trained before the last callback of the epoch has returned.
C2_CallbacksPerEpoch ==
    /\ pc \in {"epoch_loop", "train_epoch", "calc_metric", "callbacks"} =>
          LET n == Len(learning_tables[i].callbacks)
          IN  /\ \A e \in 0..(epoch - 1) :
                    EventsOf("callback", i, e) = ExpectedCallbacks(i, e, n)
              /\ EventsOf("callback", i, epoch) =
                    IF pc = "callbacks" THEN ExpectedCallbacks(i, epoch, cb - 1) ELSE <<>>
              /\ \A e \in (epoch + 1)..(MaxEpochs + 1) : EventsOf("callback", i, e) = <<>>
    /\ log # <<>> =>
          /\ Last.ev = "callback" =>
                /\ Len(EventsOf("train_batch", Last.model, Last.epoch))
                      = learning_tables[Last.model].data_loader
                /\ Len(EventsOf("train_epoch", Last.model, Last.epoch)) = 1
                /\ Len(EventsOf("metric", Last.model, Last.epoch)) = metric_func_ls
          /\ (Last.ev = "train_batch" /\ Last.epoch > 0) =>
                EpochFinished(Last.model, Last.epoch - 1)

C2_Witness ==
    /\ pc = "epoch_loop"
    /\ epoch = 2
    /\ Len(learning_tables[i].callbacks) = 2
    /\ learning_tables[i].data_loader = 2
    /\ metric_func_ls = 2
    /\ Len(EventsOf("callback", i, 1)) = 2

\* C3: fit trains the pairs in index order, model i only with table i, every
\* epoch of a pair before the first batch of the next pair; each aggregate
\* metric is computed once, after the last epoch of the last model.
C3_PairsInOrder ==
    /\ log # <<>> =>
          /\ Last.ev = "train_batch" =>
                /\ Last.table = Last.model
                /\ Last.model = i
                /\ \A j \in 1..(Last.model - 1) : PairFinished(j)
          /\ Last.ev = "total_metric" =>
                \A j \in 1..Len(model_list) : PairFinished(j)
    /\ pc \in {"init", "fit_loop", "epoch_loop", "train_epoch", "calc_metric", "callbacks"} =>
          TotalMetrics = <<>>
    /\ pc = "done" =>
          TotalMetrics = [k \in 1..metric_func_ls |-> Event("total_metric", 0, 0, 0, k)]

C3_Witness ==
    /\ pc = "done"
    /\ Len(model_list) = 2
    /\ metric_func_ls = 2
    /\ learning_tables[1].epochs = 2
    /\ learning_tables[2].epochs = 2
    /\ Len(TotalMetrics) = 2

\* C5: train_epoch calls train_batch once per batch of the loader, in loader
\* order, and returns the arithmetic mean of the losses returned; over a
\* single batch that is the batch's loss.
C5_TrainEpochMean ==
    pc \in {"calc_metric", "callbacks"} =>
        LET n == learning_tables[i].data_loader
        IN  /\ EventsOf("train_batch", i, epoch)
                  = [k \in 1..n |-> Event("train_batch", i, i, epoch, k)]
            /\ Len(loss_list) = n
            /\ mean_loss[2] > 0
            /\ mean_loss[1] * n = SumSeq(loss_list) * mean_loss[2]
            /\ (n = 1 => mean_loss = <<loss_list[1], 1>>)

C5_Witness ==
    /\ pc = "calc_metric"
    /\ loss_list = <<1, 2>>
    /\ mean_loss = <<3, 2>>

\* C6: train_epoch over a loader that yields no batch raises instead of
\* returning; the error leaves train_one_model and fit uncaught: no callback
\* of that epoch, no later epoch, no later model, no aggregate metric.
C6_EmptyLoaderRaises ==
    /\ (pc = "train_epoch" /\ learning_tables[i].data_loader = 0) =>
          /\ ENABLED TrainEpochRaises
          /\ ~ENABLED TrainEpochReturn
    /\ pc \in {"calc_metric", "callbacks"} => learning_tables[i].data_loader > 0
    /\ error = [exc |-> "StatisticsError", in |-> "train_epoch"] =>
          /\ pc = "raised"
          /\ ~ENABLED Next
          /\ learning_tables[i].data_loader = 0
          /\ EventsOf("callback", i, epoch) = <<>>
          /\ \A p \in 1..Len(log) :
                /\ log[p].ev # "total_metric"
                /\ log[p].model <= i
                /\ log[p].model = i => log[p].epoch < epoch

C6_Witness ==
    /\ error = [exc |-> "StatisticsError", in |-> "train_epoch"]
    /\ i = 2
    /\ learning_tables[1].epochs = 2
    /\ log # <<>>


\* --------------------------------------- the adapter's methods, called directly
\* the path save_weight and load_weight are called with
WeightPath == Path("weights.pth", 0, 0, 0)

\* the adapter that last saved to path p, as it was then
Saved(p) ==
    LET Test(x) == x.path = p
    IN  SelectSeq(log, Test)

\* two adapters of one architecture, constructed independently: A (1) and B (2)
InitAdapter ==
    /\ \E nc \in ClassCounts : \E net \in NetworkNames :
          model_list = << NewEfficientNet(nc, net, 0), NewEfficientNet(nc, net, 1) >>
    /\ files = NoFiles
    /\ pc = "direct"
    /\ error = NoError
    /\ FitIdle
    /\ ret = NoCall
    /\ scheduler = NoScheduler

\* model.train_batch(x, teacher)
AdapterTrainBatch ==
    \E k \in DOMAIN model_list : \E x \in Inputs :
        /\ model_list[k].optimizer.step < MaxSteps
        /\ model_list' = [model_list EXCEPT ![k] = train_batch(@, x)]
        /\ ret' = [op |-> "train_batch", self |-> k, before |-> model_list[k]]
        /\ UNCHANGED <<files, pc, error, fit_args, fit_locals, log, scheduler>>

\* model.predict(x)
AdapterPredict ==
    \E k \in DOMAIN model_list : \E x \in Inputs :
        LET r == predict(model_list[k], x)
        IN  /\ model_list' = [model_list EXCEPT ![k] = r.model]
            /\ ret' = [op |-> "predict", self |-> k, before |-> model_list[k]]
            /\ UNCHANGED <<files, pc, error, fit_args, fit_locals, log, scheduler>>

\* A.save_weight(path)
AdapterSaveWeight ==
    /\ files' = save_weight(model_list[1], files, WeightPath)
    /\ log' = << [path |-> WeightPath, adapter |-> model_list[1]] >>
    /\ ret' = [op |-> "save_weight", self |-> 1, before |-> model_list[1]]
    /\ UNCHANGED <<model_list, pc, error, fit_args, fit_locals, scheduler>>

\* B.load_weight(path) on a file save_weight wrote
AdapterLoadWeight ==
    /\ WeightPath \in DOMAIN files
    /\ model_list' = [model_list EXCEPT ![2] = load_weight(@, files[WeightPath])]
    /\ ret' = [op |-> "load_weight", self |-> 2, before |-> model_list[2], value |-> 2]
    /\ UNCHANGED <<files, pc, error, fit_args, fit_locals, log, scheduler>>

\* B.load_weight(path) on a missing file: torch.load raises, nothing is replaced
AdapterLoadWeightRaises ==
    /\ WeightPath \notin DOMAIN files
    /\ ret' = [op |-> "load_weight_raised", self |-> 2, before |-> model_list[2]]
    /\ UNCHANGED <<model_list, files, pc, error, fit_args, fit_locals, log, scheduler>>

NextAdapter ==
    \/ AdapterTrainBatch
    \/ AdapterPredict
    \/ AdapterSaveWeight
    \/ AdapterLoadWeight
    \/ AdapterLoadWeightRaises

SpecAdapter == InitAdapter /\ [][NextAdapter]_vars

\* C7: after A.save_weight(path) and then B.load_weight(path), B's class
\* count, architecture identifier, parameters and optimizer state are those A
\* had when it saved, predict on B returns what predict on that A returns for
\* every input, and load_weight returned the adapter it was called on.
C7_SaveLoadRoundTrip ==
    ret.op = "load_weight" =>
        LET A == Saved(WeightPath)[1].adapter
            B == model_list[ret.self]
        IN  /\ B.num_classes = A.num_classes
            /\ B.network = A.network
            /\ B.state_dict = A.state_dict
            /\ B.optimizer = A.optimizer
            /\ \A x \in Inputs : predict(B, x).output = predict(A, x).output
            /\ ret.value = ret.self

C7_Witness ==
    /\ ret.op = "load_weight"
    /\ ret.before = NewEfficientNet(ret.before.num_classes, ret.before.network, 1)
    /\ model_list[2].optimizer.step = 2
    /\ model_list[2].state_dict # ret.before.state_dict
    /\ Saved(WeightPath)[1].adapter.training = FALSE
    /\ model_list[2].training = TRUE

\* C10 as claimed: after train_batch or predict returns, the adapter's mode is
\* what it was before the call, and predict leaves the parameters and the
\* optimizer state unchanged.
C10_ModeRestoredAfterCall ==
    ret.op \in {"train_batch", "predict"} =>
        /\ model_list[ret.self].training = ret.before.training
        /\ ret.op = "predict" =>
              /\ model_list[ret.self].state_dict = ret.before.state_dict
              /\ model_list[ret.self].optimizer = ret.before.optimizer

\* C10 as amended: train_batch leaves the adapter in training mode and predict
\* leaves it in inference mode, whatever the mode was before the call; predict
\* leaves the parameters and the optimizer state unchanged.
C10_ModeSetByCall ==
    /\ ret.op = "train_batch" => model_list[ret.self].training = TRUE
    /\ ret.op = "predict" =>
          /\ model_list[ret.self].training = FALSE
          /\ model_list[ret.self].state_dict = ret.before.state_dict
          /\ model_list[ret.self].optimizer = ret.before.optimizer

C10_Witness ==
    /\ ret.op = "predict"
    /\ ret.before.training = TRUE
    /\ ret.before.optimizer.step = 2
    /\ model_list[ret.self].training = FALSE


\* ----------------------------------------------- a callback, called directly
\* a learning table with one periodic callback that holds the model, and the
\* model; the callback is called once per epoch, as train_one_model calls it
InitCallback ==
    /\ model_list = << NewEfficientNet(2, "efficientnet-b0", 0) >>
    /\ files = NoFiles
    /\ pc = "direct"
    /\ error = NoError
    /\ \E kind \in CallbackKinds : \E per \in 1..MaxPerEpoch :
          learning_tables = << LearningTable(1, MaxCallEpochs, << Callback(kind, per, 1) >>) >>
    /\ metric_func_ls = 0
    /\ test_dataloader = 0
    /\ i = 1
    /\ epoch = 0
    /\ batch = 0
    /\ loss_list = <<>>
    /\ metric_ls = <<>>
    /\ mean_loss = NoMean
    /\ mf = 0
    /\ cb = 1
    /\ log = <<>>
    /\ ret = NoCall
    /\ scheduler = NoScheduler

\* the held model is trained on a batch between two callback calls
HeldModelTrainBatch ==
    /\ epoch < MaxCallEpochs
    /\ model_list[1].optimizer.step < MaxSteps
    /\ \E x \in Inputs : model_list' = [model_list EXCEPT ![1] = train_batch(@, x)]
    /\ ret' = [op |-> "train_batch", self |-> 1, before |-> model_list[1]]
    /\ UNCHANGED <<files, pc, error, fit_args, fit_locals, log, scheduler>>

\* the held model predicts between two callback calls
HeldModelPredict ==
    /\ epoch < MaxCallEpochs
    /\ \E x \in Inputs : model_list' = [model_list EXCEPT ![1] = predict(@, x).model]
    /\ ret' = [op |-> "predict", self |-> 1, before |-> model_list[1]]
    /\ UNCHANGED <<files, pc, error, fit_args, fit_locals, log, scheduler>>

\* callback(epoch)
CallbackCall ==
    /\ epoch < MaxCallEpochs
    /\ LET c == learning_tables[1].callbacks[cb]
       IN  \E idx \in DatasetIndices :
             LET r == Call(c, epoch, idx, model_list, files)
             IN  /\ model_list' = r.models
                 /\ files' = r.files
                 /\ ret' = [op |-> "callback", kind |-> c.kind, per_epoch |-> c.per_epoch,
                            epoch |-> epoch, before |-> model_list[c.model],
                            tables_before |-> learning_tables,
                            files_before |-> files, writes |-> r.writes]
    /\ epoch' = epoch + 1
    /\ UNCHANGED <<pc, error, fit_args, log, scheduler>>
    /\ UNCHANGED <<i, batch, loss_list, metric_ls, mean_loss, mf, cb>>

NextCallback ==
    \/ HeldModelTrainBatch
    \/ HeldModelPredict
    \/ CallbackCall

SpecCallback == InitCallback /\ [][NextCallback]_vars

Range(s) == { s[k] : k \in DOMAIN s }

\* the call wrote exactly n files and nothing else in the file system changed
WroteFiles(n) ==
    /\ Len(ret.writes) = n
    /\ Cardinality(Range(ret.writes)) = n
    /\ DOMAIN files = (DOMAIN ret.files_before) \cup Range(ret.writes)
    /\ Cardinality((DOMAIN files) \ (DOMAIN ret.files_before)) = n
    /\ \A q \in (DOMAIN ret.files_before) \ Range(ret.writes) : files[q] = ret.files_before[q]

\* C4 as claimed: a periodic callback writes no file when
\* (epoch+1) % per_epoch # 0 and exactly one file when (epoch+1) % per_epoch = 0.
C4_ExactlyOneFileWhenDue ==
    ret.op = "callback" =>
        IF (ret.epoch + 1) % ret.per_epoch # 0 THEN WroteFiles(0) ELSE WroteFiles(1)

\* C4 as amended: a periodic callback writes no file when
\* (epoch+1) % per_epoch # 0; when (epoch+1) % per_epoch = 0 the segmentation,
\* detection and ModelCheckout callbacks write exactly one file and the
\* attention-map callback writes exactly two (the sampled image and the
\* attention heat map).
C4_FilesWrittenWhenDue ==
    ret.op = "callback" =>
        IF (ret.epoch + 1) % ret.per_epoch # 0 THEN WroteFiles(0)
        ELSE IF ret.kind = "attention" THEN WroteFiles(2)
        ELSE WroteFiles(1)

C4_Witness ==
    /\ ret.op = "callback"
    /\ ret.kind = "checkout"
    /\ ret.per_epoch = 5
    /\ ret.epoch = 4
    /\ files = WriteFile(NoFiles, Path("EfficientNet_ep", 5, 0, 0), dict_to_save(model_list[1]))
    /\ model_list[1].optimizer.step = 2

\* C9 as claimed: a callback call leaves the held model's parameters,
\* optimizer state and mode, and the learning table, as they were.
C9_CallbackLeavesTrainingState ==
    ret.op = "callback" =>
        /\ model_list[1] = ret.before
        /\ learning_tables = ret.tables_before

\* C9 as amended: a callback call leaves the held model's parameters and
\* optimizer state, and the learning table, as they were; the mode is as it
\* was after a call that does not fire and after any ModelCheckout call, and
\* is inference mode after an attention-map callback that fires.
C9_CallbackLeavesParameters ==
    ret.op = "callback" =>
        /\ model_list[1].state_dict = ret.before.state_dict
        /\ model_list[1].optimizer = ret.before.optimizer
        /\ model_list[1].num_classes = ret.before.num_classes
        /\ model_list[1].network = ret.before.network
        /\ learning_tables = ret.tables_before
        /\ ((ret.epoch + 1) % ret.per_epoch # 0 \/ ret.kind = "checkout") =>
              model_list[1].training = ret.before.training
        /\ ((ret.epoch + 1) % ret.per_epoch = 0 /\ ret.kind = "attention") =>
              model_list[1].training = FALSE

C9_Witness ==
    /\ ret.op = "callback"
    /\ ret.kind = "attention"
    /\ (ret.epoch + 1) % ret.per_epoch = 0
    /\ ret.before.training = TRUE
    /\ ret.before.optimizer.step = 2
    /\ model_list[1].training = FALSE

\* ------------------------------------------------------- WarmUpLRScheduler
\* learning rates, in units of 0.0001
LearningRates == {1, 100}

\* mutant: the warm-up lasts one epoch too long
WarmUpLRSchedulerInclusive(self, ep) ==
    IF ep <= self.warmup_epochs THEN self.warmup_lr ELSE self.lr

\* WarmUpLRScheduler.__call__
WarmUpLRScheduler(self, ep) ==
    IF ep < self.warmup_epochs THEN self.warmup_lr ELSE self.lr

\* WarmUpLRScheduler.__init__
InitLR ==
    /\ scheduler \in [warmup_lr : LearningRates, lr : LearningRates,
                      warmup_epochs : 0..MaxWarmupEpochs]
    /\ model_list = <<>>
    /\ files = NoFiles
    /\ pc = "direct"
    /\ error = NoError
    /\ FitIdle
    /\ ret = NoCall

\* scheduler(epoch)
SchedulerCall ==
    /\ \E ep \in 0..(MaxWarmupEpochs + 1) :
          ret' = [op |-> "WarmUpLRScheduler", epoch |-> ep,
                  value |-> WarmUpLRScheduler(scheduler, ep)]
    /\ UNCHANGED <<model_list, files, pc, error, fit_args, fit_locals, log, scheduler>>

NextLR == SchedulerCall

SpecLR == InitLR /\ [][NextLR]_vars

\* C8: WarmUpLRScheduler(warmup_lr, lr, warmup_epochs) returns warmup_lr for
\* every epoch below warmup_epochs and lr for every epoch at or above it; with
\* warmup_lr = 0.01, lr = 0.0001 and warmup_epochs = 10 it returns 0.01 at
\* epoch 5 and 0.0001 at epoch 10.
C8_WarmUpThenLr ==
    ret.op = "WarmUpLRScheduler" =>
        /\ ret.epoch < scheduler.warmup_epochs => ret.value = scheduler.warmup_lr
        /\ ret.epoch >= scheduler.warmup_epochs => ret.value = scheduler.lr
        /\ scheduler = [warmup_lr |-> 100, lr |-> 1, warmup_epochs |-> 10] =>
              /\ ret.epoch = 5 => ret.value = 100
              /\ ret.epoch = 10 => ret.value = 1

C8_Witness ==
    /\ ret.op = "WarmUpLRScheduler"
    /\ scheduler = [warmup_lr |-> 100, lr |-> 1, warmup_epochs |-> 10]
    /\ ret.epoch = 10
    /\ ret.value = 1

=============================================================================
